---- MODULE Spec2Model ----
(***************************************************************************)
(* Tic Tac Toe room backend (src/main.py, src/schemas.py).                 *)
(*                                                                         *)
(* The store is the "game" collection: a sequence of documents in          *)
(* insertion order. Every request handler is an operator from the          *)
(* collection and the request's inputs to the collection after the request *)
(* and the HTTP response (status, detail, and the role a join answers; the *)
(* game in the body is the room's document in the returned collection).    *)
(* An action applies one handler atomically.                               *)
(*                                                                         *)
(* Three specifications share the actions and differ in the inputs sent:   *)
(*   Spec      one room, two non-empty identifiers, the whole board;       *)
(*   SpecIds   one room, three identifiers, the empty one among them,      *)
(*             five cells of the board;                                    *)
(*   SpecRooms two rooms, two non-empty identifiers, two cells each.       *)
(*                                                                         *)
(* The endpoints are plain `def` functions, which the server runs on a     *)
(* thread pool, and no handler holds a lock or a transaction: between the  *)
(* find_one of a request and its update_one or insert_one other requests   *)
(* may run. Three further specifications split a handler into its read step  *)
(* and its write step, run by two workers:                                 *)
(*   SpecLostUpdate make_move split, one room, two cells, with resets;     *)
(*   SpecMoveRace  make_move split, one room, one round on five cells;     *)
(*   SpecJoinRace  join_game split, one room, three identifiers.           *)
(***************************************************************************)
EXTENDS Integers, Sequences, FiniteSets, TLC

VARIABLES
    db,      \* the "game" collection: a sequence of documents
    hist,    \* history: per room code, who made the latest accepted move
    flight   \* per worker, the request it is serving between read and write

vars == <<db, hist, flight>>

\* ------------------------------------------------------------------ bounds

\* Cap on the rounds won in a room, score_x + score_o (the counters are
\* unbounded in the code).
MaxWins == 1

\* ------------------------------------------------------------------ inputs

\* Python's None, as a value that is no player identifier and no mark.
None == "None"

\* Room codes sent by clients, as sequences of characters.
GameIds ==
    { <<"1", "2", "3", "4">>,          \* well-formed
      <<"1", "2", "a", "4">>,          \* four characters, one not a digit
      <<"1", "2", "3">>,               \* too short
      <<"1", "2", "3", "4", "5">>,     \* too long
      <<>> }                           \* empty

\* Codes used as lookup keys by fetch, move and the resets: the well-formed
\* code and one that no join accepts (a lookup does not look at the format).
LookupIds == { <<"1", "2", "3", "4">>, <<"1", "2", "a", "4">> }

\* The well-formed code alone: as a lookup key it finds nothing before the
\* first join and the room after it.
RoomIds == { <<"1", "2", "3", "4">> }

\* Two well-formed codes, for two rooms side by side.
TwoRoomIds == { <<"1", "2", "3", "4">>, <<"5", "6", "7", "8">> }

\* Every code above.
AllIds == GameIds \cup TwoRoomIds

\* Three non-empty identifiers: one more than a room has roles.
ThreePlayers == {"a", "b", "c"}

\* The server's threads that serve requests side by side.
Workers == {"w1", "w2"}

\* Caller identifiers: any string, the empty string included.
PlayerIds == {"", "a", "b"}

\* Two non-empty caller identifiers, for play on the whole board.
Players == {"a", "b"}

\* Role tokens sent with a move.
Roles == {"X", "O", "Z"}

\* Cell indices sent with a move: 0..8 are on the board.
Indices == -1 .. 9

\* Cell indices of the top row and the first two cells of the middle row, and
\* the two nearest indices off the board.
FewIndices == {-1, 0, 1, 2, 3, 4, 9}

\* The first two cells of the board and the index before them.
TwoIndices == {-1, 0, 1}

\* ----------------------------------------------------------------- helpers

\* Python truthiness of an Optional[str]: None and "" are falsy.
Truthy(v) == v # None /\ v # ""

\* str.isdigit() of one character.
IsDigit(c) == c \in {"0", "1", "2", "3", "4", "5", "6", "7", "8", "9"}

\* The code check without isdigit(): any four characters pass.
ValidCode_any_four(gid) == Len(gid) # 0 /\ Len(gid) = 4

\* gid and len(gid) == 4 and gid.isdigit()
ValidCode(gid) ==
    /\ Len(gid) # 0
    /\ Len(gid) = 4
    /\ \A i \in 1 .. Len(gid) : IsDigit(gid[i])

EmptyBoard == [i \in 1 .. 9 |-> None]

\* Game(game_id=gid).model_dump(): the schema's defaults.
Game(gid) ==
    [ game_id   |-> gid,
      board     |-> EmptyBoard,
      x_starts  |-> TRUE,
      x_is_next |-> TRUE,
      x_player  |-> None,
      o_player  |-> None,
      winner    |-> None,
      draw      |-> FALSE,
      score_x   |-> 0,
      score_o   |-> 0 ]

\* The 8 lines, as 0-based cell indices in the code's order.
\* The lines with the last one mistyped: the diagonal 2-4-6 is not a line.
Lines_no_antidiagonal ==
    << <<0, 1, 2>>, <<3, 4, 5>>, <<6, 7, 8>>,
       <<0, 3, 6>>, <<1, 4, 7>>, <<2, 5, 8>>,
       <<0, 4, 8>>, <<2, 4, 8>> >>

Lines ==
    << <<0, 1, 2>>, <<3, 4, 5>>, <<6, 7, 8>>,
       <<0, 3, 6>>, <<1, 4, 7>>, <<2, 5, 8>>,
       <<0, 4, 8>>, <<2, 4, 6>> >>

\* Python's board[i] for a 0-based i.
Cell(board, i) == board[i + 1]

LineHit(board, k) ==
    /\ Truthy(Cell(board, Lines[k][1]))
    /\ Cell(board, Lines[k][1]) = Cell(board, Lines[k][2])
    /\ Cell(board, Lines[k][2]) = Cell(board, Lines[k][3])

\* The mark of the first line, in the code's order, that is filled with three
\* equal marks; None when there is none.
calculate_winner(board) ==
    LET hits == {k \in 1 .. Len(Lines) : LineHit(board, k)}
    IN  IF hits = {} THEN None
        ELSE LET k == CHOOSE h \in hits : \A g \in hits : h <= g
             IN  Cell(board, Lines[k][1])

\* ------------------------------------------------------------------- store

\* Whether document doc answers the query {"game_id": gid}.
IsRoom(doc, gid) == doc.game_id = gid

\* The documents of coll that answer {"game_id": gid}, in collection order.
Matches(coll, gid) == SelectSeq(coll, LAMBDA doc : IsRoom(doc, gid))

\* Position in coll of the first document that answers {"game_id": gid}.
FirstMatch(coll, gid) ==
    CHOOSE i \in 1 .. Len(coll) :
        IsRoom(coll[i], gid) /\ \A j \in 1 .. i - 1 : ~IsRoom(coll[j], gid)

\* find_one({"game_id": gid}): <<doc>> for the first match, <<>> for None.
get_game_or_none(coll, gid) ==
    LET found == Matches(coll, gid)
    IN  IF found = <<>> THEN <<>> ELSE <<Head(found)>>

\* update_one({"game_id": gid}, {"$set": fields}): the first match only.
update_one(coll, gid, fields) ==
    IF Matches(coll, gid) = <<>> THEN coll
    ELSE [coll EXCEPT ![FirstMatch(coll, gid)] = fields @@ @]

insert_one(coll, doc) == Append(coll, doc)

\* ---------------------------------------------------------------- handlers

Response(op, status, detail, role) ==
    [op |-> op, status |-> status, detail |-> detail, role |-> role]

Ok(op, role) == Response(op, 200, "", role)

Result(coll, r) == [db |-> coll, resp |-> r]

\* The chain without its o_player test: a returning O is not recognised.
JoinBranch_forgets_o(game, pid) ==
    IF game.x_player = pid THEN "is-x"
    ELSE IF ~Truthy(game.x_player) THEN "bind-x"
    ELSE IF ~Truthy(game.o_player) THEN "bind-o"
    ELSE "full"

\* The role-determining chain of join_game on an existing document.
JoinBranch(game, pid) ==
    IF game.x_player = pid THEN "is-x"
    ELSE IF game.o_player = pid THEN "is-o"
    ELSE IF ~Truthy(game.x_player) THEN "bind-x"
    ELSE IF ~Truthy(game.o_player) THEN "bind-o"
    ELSE "full"

\* join_game that looks the room up, and creates it, before it checks the code.
join_game_checks_late(coll, gid, pid) ==
    LET found == get_game_or_none(coll, gid) IN
    IF found = <<>>
    THEN LET created == insert_one(coll, [Game(gid) EXCEPT !.x_player = pid])
         IN  IF ~ValidCode(gid)
             THEN Result(created, Response("join", 400, "game_id must be a 4-digit code", None))
             ELSE Result(created, Ok("join", "X"))
    ELSE
    LET branch == JoinBranch(found[1], pid) IN
    CASE branch = "is-x"   -> Result(coll, Ok("join", "X"))
      [] branch = "is-o"   -> Result(coll, Ok("join", "O"))
      [] branch = "bind-x" -> Result(update_one(coll, gid, [x_player |-> pid]), Ok("join", "X"))
      [] branch = "bind-o" -> Result(update_one(coll, gid, [o_player |-> pid]), Ok("join", "O"))
      [] OTHER             -> Result(coll, Response("join", 409, "Game already has two players", None))

\* POST /api/game/join
join_game(coll, gid, pid) ==
    IF ~ValidCode(gid)
    THEN Result(coll, Response("join", 400, "game_id must be a 4-digit code", None))
    ELSE
    LET found == get_game_or_none(coll, gid) IN
    IF found = <<>>
    THEN Result(insert_one(coll, [Game(gid) EXCEPT !.x_player = pid]), Ok("join", "X"))
    ELSE
    LET branch == JoinBranch(found[1], pid) IN
    CASE branch = "is-x"   -> Result(coll, Ok("join", "X"))
      [] branch = "is-o"   -> Result(coll, Ok("join", "O"))
      [] branch = "bind-x" -> Result(update_one(coll, gid, [x_player |-> pid]), Ok("join", "X"))
      [] branch = "bind-o" -> Result(update_one(coll, gid, [o_player |-> pid]), Ok("join", "O"))
      [] OTHER             -> Result(coll, Response("join", 409, "Game already has two players", None))

\* GET /api/game/{game_id}
get_game(coll, gid) ==
    IF get_game_or_none(coll, gid) = <<>>
    THEN Result(coll, Response("get", 404, "Game not found", None))
    ELSE Result(coll, Ok("get", None))

\* The fullness test stopping one cell short: range(8) for the whole board.
BoardFull_first_eight(board) == \A i \in 1 .. Len(board) - 1 : board[i] # None

\* all(v is not None for v in board)
BoardFull(board) == \A i \in 1 .. Len(board) : board[i] # None

\* The draw flag with `if` for `elif`: a full board is a draw, winner or not.
RoundDraw_if(winner, board) == BoardFull(board)

\* The draw flag of an accepted move: False, and True only in the elif branch.
RoundDraw(winner, board) == IF Truthy(winner) THEN FALSE ELSE BoardFull(board)

\* The scores after an accepted move: the winner's, if any, plus one.
ScoreX(game, winner) ==
    IF Truthy(winner) /\ winner = "X" THEN game.score_x + 1 ELSE game.score_x

ScoreO(game, winner) ==
    IF Truthy(winner) /\ winner # "X" THEN game.score_o + 1 ELSE game.score_o

\* x_is_next = not game.get("x_is_next", True)
NextTurn(game) == ~game.x_is_next

\* MoveFields that leaves the turn alone when the move ends the round.
MoveFields_keep_turn_at_end(game, idx, role) ==
    LET board  == [game.board EXCEPT ![idx + 1] = role]
        winner == calculate_winner(board)
        draw   == RoundDraw(winner, board)
    IN  [ board     |-> board,
          x_is_next |-> IF Truthy(winner) \/ draw THEN game.x_is_next ELSE NextTurn(game),
          winner    |-> winner,
          draw      |-> draw,
          score_x   |-> ScoreX(game, winner),
          score_o   |-> ScoreO(game, winner) ]

\* The $set of an accepted move: the board with the mark placed, the round's
\* outcome, the scores and the flipped turn.
MoveFields(game, idx, role) ==
    LET board  == [game.board EXCEPT ![idx + 1] = role]
        winner == calculate_winner(board)
    IN  [ board     |-> board,
          x_is_next |-> NextTurn(game),
          winner    |-> winner,
          draw      |-> RoundDraw(winner, board),
          score_x   |-> ScoreX(game, winner),
          score_o   |-> ScoreO(game, winner) ]

\* The checks of make_move on an existing document, each true when it rejects.
InvalidRole(role) == role \notin {"X", "O"}

\* The identity check with the O half dropped: anyone may move as O.
Unauthorized_x_only(game, role, pid) == role = "X" /\ game.x_player # pid

Unauthorized(game, role, pid) ==
    \/ role = "X" /\ game.x_player # pid
    \/ role = "O" /\ game.o_player # pid

\* The round-over check looking at the draw flag only.
RoundOver_draw_only(game) == game.draw

RoundOver(game) == Truthy(game.winner) \/ game.draw

\* The turn check with its first disjunct lost: X is never out of turn.
WrongTurn_o_only(game, role) == role = "O" /\ game.x_is_next

WrongTurn(game, role) ==
    \/ role = "X" /\ ~game.x_is_next
    \/ role = "O" /\ game.x_is_next

BadIndex(idx) == idx < 0 \/ idx > 8

Occupied(game, idx) == Cell(game.board, idx) # None

\* make_move with the index check moved up, ahead of the round and turn checks.
make_move_index_first(coll, gid, idx, role, pid) ==
    LET found == get_game_or_none(coll, gid) IN
    IF found = <<>>
    THEN Result(coll, Response("move", 404, "Game not found", None))
    ELSE
    LET game == found[1] IN
    IF InvalidRole(role)
    THEN Result(coll, Response("move", 400, "Invalid role", None))
    ELSE IF Unauthorized(game, role, pid)
    THEN Result(coll, Response("move", 403, "Not authorized as " \o role, None))
    ELSE IF BadIndex(idx)
    THEN Result(coll, Response("move", 400, "Invalid index", None))
    ELSE IF RoundOver(game)
    THEN Result(coll, Response("move", 409, "Round already finished", None))
    ELSE IF WrongTurn(game, role)
    THEN Result(coll, Response("move", 409, "Not your turn", None))
    ELSE IF Occupied(game, idx)
    THEN Result(coll, Response("move", 409, "Square already filled", None))
    ELSE Result(update_one(coll, gid, MoveFields(game, idx, role)), Ok("move", None))

\* POST /api/game/{game_id}/move
make_move(coll, gid, idx, role, pid) ==
    LET found == get_game_or_none(coll, gid) IN
    IF found = <<>>
    THEN Result(coll, Response("move", 404, "Game not found", None))
    ELSE
    LET game == found[1] IN
    IF InvalidRole(role)
    THEN Result(coll, Response("move", 400, "Invalid role", None))
    ELSE IF Unauthorized(game, role, pid)
    THEN Result(coll, Response("move", 403, "Not authorized as " \o role, None))
    ELSE IF RoundOver(game)
    THEN Result(coll, Response("move", 409, "Round already finished", None))
    ELSE IF WrongTurn(game, role)
    THEN Result(coll, Response("move", 409, "Not your turn", None))
    ELSE IF BadIndex(idx)
    THEN Result(coll, Response("move", 400, "Invalid index", None))
    ELSE IF Occupied(game, idx)
    THEN Result(coll, Response("move", 409, "Square already filled", None))
    ELSE Result(update_one(coll, gid, MoveFields(game, idx, role)), Ok("move", None))

\* reset_round with the $set of reset_scores pasted in: the scores go too.
reset_round_zeroing(coll, gid) ==
    LET found == get_game_or_none(coll, gid) IN
    IF found = <<>>
    THEN Result(coll, Response("reset-round", 404, "Game not found", None))
    ELSE
    LET next_starter_is_x == ~found[1].x_starts IN
    Result(update_one(coll, gid,
                      [ score_x   |-> 0,
                        score_o   |-> 0,
                        board     |-> EmptyBoard,
                        winner    |-> None,
                        draw      |-> FALSE,
                        x_starts  |-> next_starter_is_x,
                        x_is_next |-> next_starter_is_x ]),
           Ok("reset-round", None))

\* reset_round that clears the round but keeps the starter.
reset_round_same_starter(coll, gid) ==
    LET found == get_game_or_none(coll, gid) IN
    IF found = <<>>
    THEN Result(coll, Response("reset-round", 404, "Game not found", None))
    ELSE
    Result(update_one(coll, gid,
                      [ board     |-> EmptyBoard,
                        winner    |-> None,
                        draw      |-> FALSE,
                        x_is_next |-> found[1].x_starts ]),
           Ok("reset-round", None))

\* POST /api/game/{game_id}/reset-round
reset_round(coll, gid) ==
    LET found == get_game_or_none(coll, gid) IN
    IF found = <<>>
    THEN Result(coll, Response("reset-round", 404, "Game not found", None))
    ELSE
    LET next_starter_is_x == ~found[1].x_starts IN
    Result(update_one(coll, gid,
                      [ board     |-> EmptyBoard,
                        winner    |-> None,
                        draw      |-> FALSE,
                        x_starts  |-> next_starter_is_x,
                        x_is_next |-> next_starter_is_x ]),
           Ok("reset-round", None))

\* reset_scores that zeroes the scores and leaves the round as it is.
reset_scores_only(coll, gid) ==
    LET found == get_game_or_none(coll, gid) IN
    IF found = <<>>
    THEN Result(coll, Response("reset-scores", 404, "Game not found", None))
    ELSE
    Result(update_one(coll, gid, [score_x |-> 0, score_o |-> 0]),
           Ok("reset-scores", None))

\* reset_scores that always gives the turn to X, whoever opens the round.
reset_scores_x_first(coll, gid) ==
    LET found == get_game_or_none(coll, gid) IN
    IF found = <<>>
    THEN Result(coll, Response("reset-scores", 404, "Game not found", None))
    ELSE
    Result(update_one(coll, gid,
                      [ score_x   |-> 0,
                        score_o   |-> 0,
                        board     |-> EmptyBoard,
                        winner    |-> None,
                        draw      |-> FALSE,
                        x_is_next |-> TRUE ]),
           Ok("reset-scores", None))

\* POST /api/game/{game_id}/reset-scores
reset_scores(coll, gid) ==
    LET found == get_game_or_none(coll, gid) IN
    IF found = <<>>
    THEN Result(coll, Response("reset-scores", 404, "Game not found", None))
    ELSE
    Result(update_one(coll, gid,
                      [ score_x   |-> 0,
                        score_o   |-> 0,
                        board     |-> EmptyBoard,
                        winner    |-> None,
                        draw      |-> FALSE,
                        x_is_next |-> found[1].x_starts ]),
           Ok("reset-scores", None))

\* ----------------------------------------------------------------- actions

\* History of a room: the distinct identifiers whose join was accepted, in the
\* order of their first join; the role of the latest accepted move; whether a
\* reset-round or reset-scores was accepted since that move.
NoHistory == [joined |-> <<>>, mover |-> None, reset_since |-> FALSE]

\* The history of room gid: none until its first accepted request.
History(gid) == IF gid \in DOMAIN hist THEN hist[gid] ELSE NoHistory

\* hist with the history of room gid replaced by h.
Noted(gid, h) == (gid :> h) @@ hist

\* A worker that serves no request.
Idle ==
    [ pc   |-> "idle", op  |-> None, gid  |-> <<>>, pid |-> None,
      role |-> None,   idx |-> -1,   game |-> <<>> ]

Init ==
    /\ db = <<>>
    /\ hist = <<>>
    /\ flight = [w \in Workers |-> Idle]

\* The rounds won in every stored room are within the cap.
WithinCap(coll) ==
    \A i \in 1 .. Len(coll) : coll[i].score_x + coll[i].score_o <= MaxWins

Elems(seq) == {seq[i] : i \in 1 .. Len(seq)}

JoinGame(gid, pid) ==
    LET r == join_game(db, gid, pid) IN
    /\ db' = r.db
    /\ hist' = IF r.resp.status = 200 /\ pid \notin Elems(History(gid).joined)
               THEN Noted(gid, [History(gid) EXCEPT !.joined = Append(@, pid)])
               ELSE hist
    /\ UNCHANGED flight

GetGame(gid) ==
    /\ db' = get_game(db, gid).db
    /\ UNCHANGED <<hist, flight>>

MakeMove(gid, idx, role, pid) ==
    LET r == make_move(db, gid, idx, role, pid) IN
    /\ WithinCap(r.db)
    /\ db' = r.db
    /\ hist' = IF r.resp.status = 200
               THEN Noted(gid, [History(gid) EXCEPT !.mover = role, !.reset_since = FALSE])
               ELSE hist
    /\ UNCHANGED flight

ResetRound(gid) ==
    LET r == reset_round(db, gid) IN
    /\ db' = r.db
    /\ hist' = IF r.resp.status = 200
               THEN Noted(gid, [History(gid) EXCEPT !.reset_since = TRUE])
               ELSE hist
    /\ UNCHANGED flight

ResetScores(gid) ==
    LET r == reset_scores(db, gid) IN
    /\ db' = r.db
    /\ hist' = IF r.resp.status = 200
               THEN Noted(gid, [History(gid) EXCEPT !.reset_since = TRUE])
               ELSE hist
    /\ UNCHANGED flight

\* Play on the whole board by two non-empty identifiers.
Next ==
    \/ \E gid \in GameIds, pid \in Players : JoinGame(gid, pid)
    \/ \E gid \in LookupIds : GetGame(gid)
    \/ \E gid \in RoomIds, idx \in Indices, role \in Roles, pid \in Players :
           MakeMove(gid, idx, role, pid)
    \/ \E gid \in LookupIds : ResetRound(gid)
    \/ \E gid \in LookupIds : ResetScores(gid)

Spec == Init /\ [][Next]_vars

\* Every caller identifier, the empty one included, on a part of the board.
NextIds ==
    \/ \E gid \in GameIds, pid \in PlayerIds : JoinGame(gid, pid)
    \/ \E gid \in LookupIds : GetGame(gid)
    \/ \E gid \in LookupIds, idx \in FewIndices, role \in Roles, pid \in PlayerIds :
           MakeMove(gid, idx, role, pid)
    \/ \E gid \in LookupIds : ResetRound(gid)
    \/ \E gid \in LookupIds : ResetScores(gid)

SpecIds == Init /\ [][NextIds]_vars

\* Two rooms side by side, each played on two cells by two identifiers.
NextRooms ==
    \/ \E gid \in AllIds, pid \in Players : JoinGame(gid, pid)
    \/ \E gid \in TwoRoomIds : GetGame(gid)
    \/ \E gid \in TwoRoomIds, idx \in TwoIndices, role \in Roles, pid \in Players :
           MakeMove(gid, idx, role, pid)
    \/ \E gid \in TwoRoomIds : ResetRound(gid)
    \/ \E gid \in TwoRoomIds : ResetScores(gid)

SpecRooms == Init /\ [][NextRooms]_vars

\* ------------------------------------------------- requests that overlap

\* Cells played when moves overlap: a row and two cells of the next.
RaceIndices == {0, 1, 2, 3, 4}

\* The read step of make_move: the lookup and every check, made on the
\* document read. The response is the one of the whole handler, decided here.
move_read(coll, gid, idx, role, pid) == make_move(coll, gid, idx, role, pid).resp

\* A write step that looks the document up again and applies the move to
\* what is stored now.
move_write_fresh(coll, req) ==
    update_one(coll, req.gid,
               MoveFields(get_game_or_none(coll, req.gid)[1], req.idx, req.role))

\* The write step of make_move: the $set computed from the document that the
\* read step saw, applied to the room as it is stored now.
move_write(coll, req) ==
    update_one(coll, req.gid, MoveFields(req.game[1], req.idx, req.role))

\* The read step of join_game: the code check, the lookup and the branch
\* taken on the document read, which decides the response and the role.
join_read(coll, gid, pid) == join_game(coll, gid, pid).resp

\* Whether the branch taken on the document read writes to the store.
JoinWrites(found, pid) ==
    found = <<>> \/ JoinBranch(found[1], pid) \in {"bind-x", "bind-o"}

\* The write step of join_game: the insert or the $set chosen from the
\* document that the read step saw.
join_write(coll, req) ==
    IF req.game = <<>>
    THEN insert_one(coll, [Game(req.gid) EXCEPT !.x_player = req.pid])
    ELSE
    LET branch == JoinBranch(req.game[1], req.pid) IN
    CASE branch = "bind-x" -> update_one(coll, req.gid, [x_player |-> req.pid])
      [] branch = "bind-o" -> update_one(coll, req.gid, [o_player |-> req.pid])
      [] OTHER             -> coll

\* The request a worker carries from its read step on.
Request(pc, op, gid, pid, role, idx, found) ==
    [ pc   |-> pc,   op  |-> op,  gid  |-> gid, pid |-> pid,
      role |-> role, idx |-> idx, game |-> found ]

\* A free worker takes a move request and reads; a rejected request ends here.
MoveRead(w, gid, idx, role, pid) ==
    /\ flight[w].pc # "write"
    /\ flight' = [flight EXCEPT ![w] =
                      IF move_read(db, gid, idx, role, pid).status = 200
                      THEN Request("write", "move", gid, pid, role, idx,
                                   get_game_or_none(db, gid))
                      ELSE Idle]
    /\ UNCHANGED <<db, hist>>

\* The worker writes the move it computed and answers.
MoveWrite(w) ==
    /\ flight[w].pc = "write"
    /\ flight[w].op = "move"
    /\ WithinCap(move_write(db, flight[w]))
    /\ db' = move_write(db, flight[w])
    /\ hist' = Noted(flight[w].gid,
                     [History(flight[w].gid) EXCEPT !.mover = flight[w].role,
                                                    !.reset_since = FALSE])
    /\ flight' = [flight EXCEPT ![w].pc = "done"]

\* A free worker takes a join request and reads; a rejected request and one
\* from an identifier already bound end here.
JoinRead(w, gid, pid) ==
    LET resp  == join_read(db, gid, pid)
        found == get_game_or_none(db, gid)
    IN  /\ flight[w].pc # "write"
        /\ flight' = [flight EXCEPT ![w] =
                          IF resp.status # 200 THEN Idle
                          ELSE Request(IF JoinWrites(found, pid) THEN "write" ELSE "done",
                                       "join", gid, pid, resp.role, -1, found)]
        /\ hist' = IF resp.status = 200 /\ ~JoinWrites(found, pid)
                      /\ pid \notin Elems(History(gid).joined)
                   THEN Noted(gid, [History(gid) EXCEPT !.joined = Append(@, pid)])
                   ELSE hist
        /\ UNCHANGED db

\* The worker inserts the room or binds the identifier, and answers.
JoinWrite(w) ==
    /\ flight[w].pc = "write"
    /\ flight[w].op = "join"
    /\ db' = join_write(db, flight[w])
    /\ hist' = IF flight[w].pid \notin Elems(History(flight[w].gid).joined)
               THEN Noted(flight[w].gid,
                          [History(flight[w].gid) EXCEPT !.joined = Append(@, flight[w].pid)])
               ELSE hist
    /\ flight' = [flight EXCEPT ![w].pc = "done"]

\* Moves of two workers that overlap, on two cells of one room, with the
\* resets and the joins served in one step.
NextLostUpdate ==
    \/ \E gid \in RoomIds, pid \in Players : JoinGame(gid, pid)
    \/ \E w \in Workers, gid \in LookupIds, idx \in TwoIndices,
          role \in Roles, pid \in Players :
           MoveRead(w, gid, idx, role, pid)
    \/ \E w \in Workers : MoveWrite(w)
    \/ \E gid \in RoomIds : ResetRound(gid)
    \/ \E gid \in RoomIds : ResetScores(gid)

SpecLostUpdate == Init /\ [][NextLostUpdate]_vars

\* Moves of two workers that overlap, in one round on five cells of one
\* room: enough for a line to be completed.
NextMoveRace ==
    \/ \E gid \in RoomIds, pid \in Players : JoinGame(gid, pid)
    \/ \E w \in Workers, gid \in RoomIds, idx \in RaceIndices,
          role \in {"X", "O"}, pid \in Players :
           MoveRead(w, gid, idx, role, pid)
    \/ \E w \in Workers : MoveWrite(w)

SpecMoveRace == Init /\ [][NextMoveRace]_vars

\* Joins of two workers that overlap, by three identifiers on one room code
\* and on a malformed one.
NextJoinRace ==
    \/ \E w \in Workers, gid \in LookupIds, pid \in ThreePlayers :
           JoinRead(w, gid, pid)
    \/ \E w \in Workers : JoinWrite(w)
    \/ \E gid \in RoomIds : GetGame(gid)

SpecJoinRace == Init /\ [][NextJoinRace]_vars

\* ------------------------------------------------------------------ claims

\* The document of room gid in collection coll (the one a lookup finds).
Room(coll, gid) == get_game_or_none(coll, gid)[1]

Exists(coll, gid) == get_game_or_none(coll, gid) # <<>>

\* C1: once x_player (respectively o_player) of a room holds an identifier,
\* the empty string included, no later step makes it hold a different one.
C1_BindingNeverReassigned ==
    [][\A gid \in GameIds :
          Exists(db, gid) =>
              /\ Exists(db', gid)
              /\ Room(db, gid).x_player # None =>
                     Room(db', gid).x_player = Room(db, gid).x_player
              /\ Room(db, gid).o_player # None =>
                     Room(db', gid).o_player = Room(db, gid).o_player]_vars

\* Every document of collection d is still in e, at its place, with scores no
\* lower than in d.
ScoresKept(d, e) ==
    /\ Len(e) >= Len(d)
    /\ \A i \in 1 .. Len(d) :
           /\ e[i].score_x >= d[i].score_x
           /\ e[i].score_o >= d[i].score_o

\* The step is an accepted reset-scores of room gid.
IsResetScores(gid) ==
    /\ reset_scores(db, gid).resp.status = 200
    /\ db' = reset_scores(db, gid).db

\* C2: in every step no score of any room decreases, unless the step is a
\* reset-scores, and that sets both scores of its room to zero.
C2_ScoresNeverDecrease ==
    [][\/ ScoresKept(db, db')
       \/ \E gid \in LookupIds :
              /\ IsResetScores(gid)
              /\ Room(db', gid).score_x = 0
              /\ Room(db', gid).score_o = 0
              /\ \A i \in 1 .. Len(db) :
                     ~IsRoom(db[i], gid) => db'[i] = db[i]]_vars

\* A round was reset after X had scored, and the score is still there.
C2_Witness ==
    \E gid \in LookupIds :
        /\ Exists(db, gid)
        /\ Room(db, gid).score_x = 1
        /\ Room(db, gid).board = EmptyBoard
        /\ ~Room(db, gid).x_starts
        /\ History(gid).reset_since

\* C3: in no stored document are winner set and draw true together.
C3_WinnerExcludesDraw ==
    \A i \in 1 .. Len(db) : ~(db[i].winner # None /\ db[i].draw)

\* The ninth mark completed a line: the board is full and the round is won.
C3_Witness ==
    \E i \in 1 .. Len(db) :
        /\ \A c \in 1 .. 9 : db[i].board[c] # None
        /\ db[i].winner # None
        /\ ~db[i].draw

\* C4: an accepted move flips x_is_next of its room, whatever the outcome of
\* the move; a rejected move and a join leave x_is_next as it was.
C4_MoveFlipsTurn ==
    \A gid \in LookupIds :
        Exists(db, gid) =>
            /\ \A idx \in Indices, role \in Roles, pid \in PlayerIds :
                   LET r == make_move(db, gid, idx, role, pid)
                   IN  Room(r.db, gid).x_is_next =
                           IF r.resp.status = 200
                           THEN ~Room(db, gid).x_is_next
                           ELSE Room(db, gid).x_is_next
            /\ \A other \in GameIds, pid \in PlayerIds :
                   LET r == join_game(db, other, pid)
                   IN  /\ Exists(r.db, gid)
                       /\ Room(r.db, gid).x_is_next = Room(db, gid).x_is_next

\* X's move has just ended a round in a draw, and the turn is O's.
C4_Witness ==
    \E gid \in LookupIds :
        /\ Exists(db, gid)
        /\ Room(db, gid).draw
        /\ History(gid).mover = "X"
        /\ ~History(gid).reset_since
        /\ ~Room(db, gid).x_is_next

\* The identifier bound to a role of a document.
Bound(game, role) == IF role = "X" THEN game.x_player ELSE game.o_player

\* C5 as stated: the role of the latest accepted move of a room never makes
\* the next accepted move, and a further attempt by its authorized player
\* right after that move is rejected with the wrong-turn error.
C5_StrictAlternation ==
    \A gid \in LookupIds, role \in {"X", "O"} :
        Exists(db, gid) /\ History(gid).mover = role =>
            /\ \A idx \in Indices, pid \in PlayerIds :
                   make_move(db, gid, idx, role, pid).resp.status # 200
            /\ ~History(gid).reset_since =>
                   \A idx \in Indices :
                       LET r == make_move(db, gid, idx, role, Bound(Room(db, gid), role))
                       IN  r.resp.status = 409 /\ r.resp.detail = "Not your turn"

\* C5 amended: while no reset was accepted since the latest accepted move
\* of a room, the role of that move makes no accepted move, and an attempt by
\* its authorized player is rejected with 409: round-finished when the move
\* decided the round, wrong-turn otherwise.
C5_AlternationWithinRound ==
    \A gid \in LookupIds, role \in {"X", "O"} :
        Exists(db, gid) /\ History(gid).mover = role /\ ~History(gid).reset_since =>
            \A idx \in Indices :
                /\ \A pid \in PlayerIds :
                       make_move(db, gid, idx, role, pid).resp.status # 200
                /\ LET game == Room(db, gid)
                       r    == make_move(db, gid, idx, role, Bound(game, role))
                   IN  /\ r.resp.status = 409
                       /\ r.resp.detail = IF game.winner # None \/ game.draw
                                          THEN "Round already finished"
                                          ELSE "Not your turn"

\* X has just moved and won: a further attempt by X meets a finished round.
C5_Witness ==
    \E gid \in LookupIds :
        /\ Exists(db, gid)
        /\ History(gid).mover = "X"
        /\ ~History(gid).reset_since
        /\ Room(db, gid).winner = "X"

\* The identifiers whose join to room gid was accepted, in order of arrival.
Joined(gid) == History(gid).joined

\* C6: of the distinct identifiers that join a room, the second is given
\* role O, every further one is rejected with 409 and binds nothing, and no
\* more than two are ever bound.
C6_SecondIsOThirdRejected ==
    \A gid \in LookupIds :
        Exists(db, gid) =>
            /\ Len(Joined(gid)) <= 2
            /\ \A pid \in PlayerIds \ Elems(Joined(gid)) :
                   LET r == join_game(db, gid, pid)
                   IN  IF Len(Joined(gid)) = 1
                       THEN r.resp.status = 200 /\ r.resp.role = "O"
                       ELSE r.resp.status = 409 /\ r.db = db

\* C7: a join by the identifier bound to a role of a room answers that role
\* and leaves the whole collection as it was.
C7_RejoinIdempotent ==
    \A gid \in LookupIds, role \in {"X", "O"} :
        Exists(db, gid) /\ Bound(Room(db, gid), role) # None =>
            LET r == join_game(db, gid, Bound(Room(db, gid), role))
            IN  /\ r.resp.status = 200
                /\ r.resp.role = role
                /\ r.db = db

\* A decided round in a room whose O is the empty identifier: a join by "" is
\* a rejoin there.
C7_Witness ==
    \E gid \in LookupIds :
        /\ Exists(db, gid)
        /\ Room(db, gid).o_player = ""
        /\ Room(db, gid).winner # None
        /\ Room(db, gid).score_o = 1

\* A code of exactly four decimal digits, as the claim words it.
WellFormed(gid) ==
    /\ Len(gid) = 4
    /\ \A i \in 1 .. Len(gid) :
           gid[i] \in {"0", "1", "2", "3", "4", "5", "6", "7", "8", "9"}

\* The record a first join by pid to code gid is to create, as the claim lists
\* its fields.
FreshRecord(gid, pid) ==
    [ game_id   |-> gid,
      board     |-> <<None, None, None, None, None, None, None, None, None>>,
      x_starts  |-> TRUE,
      x_is_next |-> TRUE,
      x_player  |-> pid,
      o_player  |-> None,
      winner    |-> None,
      draw      |-> FALSE,
      score_x   |-> 0,
      score_o   |-> 0 ]

\* C8: a join with a well-formed code that has no record adds exactly the
\* fresh record, bound to the caller as X, and answers role X; a join with a
\* malformed code is rejected and leaves the collection as it was.
C8_FirstJoinCreates ==
    \A gid \in AllIds, pid \in PlayerIds :
        LET r == join_game(db, gid, pid)
        IN  /\ WellFormed(gid) /\ ~Exists(db, gid) =>
                   /\ r.resp.status = 200
                   /\ r.resp.role = "X"
                   /\ r.db = Append(db, FreshRecord(gid, pid))
                   /\ Len(Matches(r.db, gid)) = 1
            /\ ~WellFormed(gid) =>
                   /\ r.resp.status = 400
                   /\ r.db = db
                   /\ ~Exists(r.db, gid)

\* A second room has just been created by a first join while the first room
\* is in play: the collection is the first room's document and a fresh one.
C8_Witness ==
    \E gid \in TwoRoomIds, pid \in PlayerIds :
        /\ Len(db) = 2
        /\ db[1].board # EmptyBoard
        /\ db[1].o_player # None
        /\ db[2] = FreshRecord(gid, pid)
        /\ Joined(gid) = <<pid>>

\* The checks of a move in the claimed order, each with its error; check k
\* fails on a request when Failing holds of it.
MoveErrors(role) ==
    << [status |-> 404, detail |-> "Game not found"],
       [status |-> 400, detail |-> "Invalid role"],
       [status |-> 403, detail |-> "Not authorized as " \o role],
       [status |-> 409, detail |-> "Round already finished"],
       [status |-> 409, detail |-> "Not your turn"],
       [status |-> 400, detail |-> "Invalid index"],
       [status |-> 409, detail |-> "Square already filled"] >>

\* found is the lookup's answer: <<>>, or the room's document in a sequence.
Failing(k, found, idx, role, pid) ==
    CASE k = 1 -> found = <<>>
      [] k = 2 -> role \notin {"X", "O"}
      [] k = 3 -> found # <<>> /\ role \in {"X", "O"} /\ Bound(found[1], role) # pid
      [] k = 4 -> found # <<>> /\ (found[1].winner # None \/ found[1].draw)
      [] k = 5 -> found # <<>> /\ role \in {"X", "O"}
                    /\ found[1].x_is_next # (role = "X")
      [] k = 6 -> idx \notin 0 .. 8
      [] k = 7 -> found # <<>> /\ idx \in 0 .. 8 /\ found[1].board[idx + 1] # None

\* The first check from k on that fails on the request, 0 if none does.
RECURSIVE FirstFailing(_, _, _, _, _)
FirstFailing(k, found, idx, role, pid) ==
    IF k > 7 THEN 0
    ELSE IF Failing(k, found, idx, role, pid) THEN k
    ELSE FirstFailing(k + 1, found, idx, role, pid)

\* C9: a move is answered with the error of the first check, in the order
\* not-found, invalid-role, unauthorized, round-finished, wrong-turn,
\* out-of-range, cell-occupied, that fails on it, and accepted if none does.
C9_FirstFailingCheckWins ==
    \A gid \in LookupIds :
        LET found == get_game_or_none(db, gid) IN
        \A idx \in Indices, role \in Roles, pid \in PlayerIds :
            LET r     == make_move(db, gid, idx, role, pid).resp
                first == FirstFailing(1, found, idx, role, pid)
            IN  IF first = 0 THEN r.status = 200
                ELSE /\ r.status = MoveErrors(role)[first].status
                     /\ r.detail = MoveErrors(role)[first].detail

\* The role that has just moved, in an open round, sends index 9 with its own
\* identifier: out of turn and out of range, answered wrong-turn.
C9_Witness ==
    \E gid \in LookupIds, role \in {"X", "O"} :
        LET found == get_game_or_none(db, gid) IN
        /\ found # <<>>
        /\ History(gid).mover = role
        /\ Failing(5, found, 9, role, Bound(found[1], role))
        /\ Failing(6, found, 9, role, Bound(found[1], role))
        /\ ~Failing(3, found, 9, role, Bound(found[1], role))
        /\ ~Failing(4, found, 9, role, Bound(found[1], role))
        /\ make_move(db, gid, 9, role, Bound(found[1], role)).resp.detail
               = "Not your turn"

\* C10: a request that is rejected, whatever the handler and the reason,
\* leaves the collection exactly as it was.
C10_RejectedLeavesStore ==
    \A gid \in GameIds :
        /\ \A pid \in PlayerIds :
               LET r == join_game(db, gid, pid)
               IN  r.resp.status # 200 => r.db = db
        /\ \A idx \in Indices, role \in Roles, pid \in PlayerIds :
               LET r == make_move(db, gid, idx, role, pid)
               IN  r.resp.status # 200 => r.db = db
        /\ get_game(db, gid).resp.status # 200 => get_game(db, gid).db = db
        /\ reset_round(db, gid).resp.status # 200 => reset_round(db, gid).db = db
        /\ reset_scores(db, gid).resp.status # 200 => reset_scores(db, gid).db = db

\* A full room with a won round: a third identifier's join is rejected with
\* 409, and so is a move to the occupied cell 0.
C10_Witness ==
    \E gid \in LookupIds, pid \in PlayerIds :
        /\ Exists(db, gid)
        /\ Room(db, gid).winner # None
        /\ Room(db, gid).board[1] # None
        /\ join_game(db, gid, pid).resp.status = 409
        /\ make_move(db, gid, 0, "X", Room(db, gid).x_player).resp.status = 409

\* C11: a move is accepted only for role X or O and only from the identifier
\* bound to that role; for a role with no bound identifier no move is
\* accepted, whatever identifier the caller sends.
C11_OnlyBoundCallerMoves ==
    \A gid \in LookupIds :
        LET found == get_game_or_none(db, gid) IN
        found # <<>> =>
            \A idx \in FewIndices, role \in Roles, pid \in PlayerIds :
                make_move(db, gid, idx, role, pid).resp.status = 200 =>
                    /\ role \in {"X", "O"}
                    /\ Bound(found[1], role) # None
                    /\ Bound(found[1], role) = pid

\* X has moved, it is O's turn and nobody is bound to O: every move as O is
\* answered 403.
C11_Witness ==
    \E gid \in LookupIds :
        /\ Exists(db, gid)
        /\ Room(db, gid).o_player = None
        /\ History(gid).mover = "X"
        /\ ~Room(db, gid).x_is_next
        /\ Room(db, gid).winner = None
        /\ \A idx \in FewIndices, pid \in PlayerIds :
               make_move(db, gid, idx, "O", pid).resp.status = 403

\* A round is decided when its winner is a mark or its draw flag is set.
Decided(game) == game.winner \in {"X", "O"} \/ game.draw = TRUE

\* What a round has stored: the board, the outcome and the scores.
RoundState(game) ==
    <<game.board, game.winner, game.draw, game.score_x, game.score_o>>

\* C12: in a room whose round is decided every move is rejected and stores
\* nothing, and a join or a lookup leaves the board, winner, draw and scores
\* as they are: only reset-round and reset-scores change them.
C12_DecidedRoundFrozen ==
    \A gid \in RoomIds :
        LET found == get_game_or_none(db, gid) IN
        found # <<>> /\ Decided(found[1]) =>
            /\ \A idx \in Indices, role \in Roles, pid \in Players :
                   LET r == make_move(db, gid, idx, role, pid) IN
                   r.resp.status # 200 /\ r.db = db
            /\ \A g \in GameIds, pid \in Players :
                   RoundState(Room(join_game(db, g, pid).db, gid))
                       = RoundState(found[1])
            /\ get_game(db, gid).db = db

\* X has won with cells still empty, and it is the turn of a bound O.
C12_Witness ==
    \E gid \in RoomIds :
        /\ Exists(db, gid)
        /\ Room(db, gid).winner = "X"
        /\ Room(db, gid).o_player = "b"
        /\ ~Room(db, gid).x_is_next
        /\ Room(db, gid).board[9] = None
        /\ make_move(db, gid, 8, "O", "b").resp.status = 409

\* The number of occupied cells of a board.
Marks(board) == Cardinality({i \in 0 .. 8 : Cell(board, i) # None})

\* The 8 winning lines of the 3x3 board: rows, columns and diagonals.
WinningLines ==
    {{3 * r, 3 * r + 1, 3 * r + 2} : r \in 0 .. 2}
        \cup {{c, c + 3, c + 6} : c \in 0 .. 2}
        \cup {{0, 4, 8}, {2, 4, 6}}

HasLine(board, mark) ==
    \E l \in WinningLines : \A i \in l : Cell(board, i) = mark

AnyLine(board) == HasLine(board, "X") \/ HasLine(board, "O")

\* A step that places a mark in room gid: an accepted move, the only request
\* after which the board holds one mark more.
MovePlaced(gid) ==
    /\ Exists(db, gid)
    /\ Marks(Room(db', gid).board) = Marks(Room(db, gid).board) + 1

\* C13: after an accepted move winner is set iff the resulting board holds a
\* winning line; then winner is the mover's mark, the mover's score is one
\* more and the other score is as before; without a line both scores stay.
C13_WinnerIffLine ==
    [][\A gid \in RoomIds :
           MovePlaced(gid) =>
               LET d    == Room(db, gid)
                   e    == Room(db', gid)
                   role == History(gid)'.mover
               IN  /\ (e.winner # None) <=> AnyLine(e.board)
                   /\ e.winner # None =>
                          /\ e.winner = role
                          /\ HasLine(e.board, role)
                          /\ IF role = "X"
                             THEN e.score_x = d.score_x + 1 /\ e.score_o = d.score_o
                             ELSE e.score_o = d.score_o + 1 /\ e.score_x = d.score_x
                   /\ e.winner = None =>
                          e.score_x = d.score_x /\ e.score_o = d.score_o]_vars

\* O has just won on the diagonal 2-4-6 and holds the only point.
C13_Witness ==
    \E gid \in RoomIds :
        /\ Exists(db, gid)
        /\ Room(db, gid).winner = "O"
        /\ \A i \in {2, 4, 6} : Cell(Room(db, gid).board, i) = "O"
        /\ Room(db, gid).score_o = 1
        /\ Room(db, gid).score_x = 0
        /\ History(gid).mover = "O"
        /\ ~History(gid).reset_since

\* C14: after an accepted move draw is true iff all 9 cells are filled and
\* the board holds no winning line, and then winner is unset; a move that
\* fills the ninth cell and completes a line stores a winner and no draw.
C14_DrawIffFullNoLine ==
    [][\A gid \in RoomIds :
           MovePlaced(gid) =>
               LET e == Room(db', gid) IN
               /\ e.draw <=> (Marks(e.board) = 9 /\ ~AnyLine(e.board))
               /\ e.draw => e.winner = None
               /\ Marks(e.board) = 9 /\ AnyLine(e.board) =>
                      e.winner = History(gid)'.mover /\ ~e.draw]_vars

\* The ninth mark has completed a line: the round is won, not drawn.
C14_Witness ==
    \E gid \in RoomIds :
        /\ Exists(db, gid)
        /\ Marks(Room(db, gid).board) = 9
        /\ AnyLine(Room(db, gid).board)
        /\ Room(db, gid).winner = History(gid).mover
        /\ ~Room(db, gid).draw
        /\ ~History(gid).reset_since

\* C15: reset-round on an existing room, whatever its state, empties the
\* board, clears winner and draw, flips x_starts and gives the turn to the
\* new starter; scores, bindings and game_id are as before and no other
\* document changes.
C15_ResetRoundEffect ==
    \A gid \in LookupIds :
        Exists(db, gid) =>
            LET d == Room(db, gid)
                r == reset_round(db, gid)
                e == Room(r.db, gid)
            IN  /\ r.resp.status = 200
                /\ e.board = [i \in 1 .. 9 |-> None]
                /\ e.winner = None
                /\ e.draw = FALSE
                /\ e.x_starts = ~d.x_starts
                /\ e.x_is_next = e.x_starts
                /\ e.score_x = d.score_x /\ e.score_o = d.score_o
                /\ e.x_player = d.x_player /\ e.o_player = d.o_player
                /\ e.game_id = d.game_id
                /\ Len(r.db) = Len(db)

\* A second round, opened by O, is under way with a point on the board: a
\* reset-round has been accepted, and the next one flips the starter back.
C15_Witness ==
    \E gid \in LookupIds :
        /\ Exists(db, gid)
        /\ ~Room(db, gid).x_starts
        /\ Room(db, gid).score_x = 1
        /\ Marks(Room(db, gid).board) = 3
        /\ ~History(gid).reset_since
        /\ Room(reset_round(db, gid).db, gid).x_starts
        /\ Room(reset_round(db, gid).db, gid).score_x = 1

\* C16: reset-scores on an existing room, whatever its state, zeroes both
\* scores, empties the board, clears winner and draw and gives the turn to
\* the current starter; x_starts, bindings and game_id are as before.
C16_ResetScoresEffect ==
    \A gid \in LookupIds :
        Exists(db, gid) =>
            LET d == Room(db, gid)
                r == reset_scores(db, gid)
                e == Room(r.db, gid)
            IN  /\ r.resp.status = 200
                /\ e.score_x = 0 /\ e.score_o = 0
                /\ e.board = [i \in 1 .. 9 |-> None]
                /\ e.winner = None
                /\ e.draw = FALSE
                /\ e.x_is_next = d.x_starts
                /\ e.x_starts = d.x_starts
                /\ e.x_player = d.x_player /\ e.o_player = d.o_player
                /\ e.game_id = d.game_id
                /\ Len(r.db) = Len(db)

\* O has won a round that O opened and it is X's turn: reset-scores takes
\* the point away, clears the round and hands the turn to O, the starter.
C16_Witness ==
    \E gid \in LookupIds :
        /\ Exists(db, gid)
        /\ Room(db, gid).winner = "O"
        /\ Room(db, gid).score_o = 1
        /\ ~Room(db, gid).x_starts
        /\ Room(db, gid).x_is_next
        /\ Room(reset_scores(db, gid).db, gid).score_o = 0
        /\ ~Room(reset_scores(db, gid).db, gid).x_is_next

\* The number of cells of a board that hold mark.
Count(board, mark) == Cardinality({i \in 0 .. 8 : Cell(board, i) = mark})

\* The mark of the role that opens the round, and the other one.
Opener(game) == IF game.x_starts THEN "X" ELSE "O"

Second(game) == IF game.x_starts THEN "O" ELSE "X"

\* C18: in every stored room the turn is the opener's when the number of
\* occupied cells is even and the other role's when it is odd; the marks of
\* the two roles differ by at most one and the opener never has fewer.
C18_TurnFollowsParity ==
    \A i \in 1 .. Len(db) :
        LET game == db[i]
            n    == Marks(game.board)
            o    == Count(game.board, Opener(game))
            s    == Count(game.board, Second(game))
        IN  /\ game.x_is_next = (IF n % 2 = 0 THEN game.x_starts ELSE ~game.x_starts)
            /\ o - s \in {0, 1}

\* O opened the round and has one mark more than X: it is X's turn.
C18_Witness ==
    \E i \in 1 .. Len(db) :
        /\ ~db[i].x_starts
        /\ Count(db[i].board, "O") = 3
        /\ Count(db[i].board, "X") = 2
        /\ db[i].x_is_next
        /\ db[i].winner = None

\* C17: when two move requests of a room have read the same document and
\* have both passed the checks, and the first has written its move, the
\* write of the second stores the board it read plus its own mark: the mark
\* of the first is gone, and x_is_next is the flip of the value both read,
\* flipped once for two accepted moves.
C17_SecondWriteLosesFirst ==
    [][\A w \in Workers, v \in Workers :
           LET first  == flight[v]
               second == flight[w]
               read   == second.game[1]
           IN  (/\ w # v
                /\ second.pc = "write" /\ second.op = "move"
                /\ first.pc = "done" /\ first.op = "move"
                /\ first.gid = second.gid /\ first.game = second.game
                /\ first.idx # second.idx
                /\ Room(db, second.gid).board
                       = [read.board EXCEPT ![first.idx + 1] = first.role]
                /\ flight'[w].pc = "done")
               => /\ Room(db', second.gid).board
                         = [read.board EXCEPT ![second.idx + 1] = second.role]
                  /\ Cell(Room(db', second.gid).board, first.idx) = None
                  /\ Room(db', second.gid).x_is_next = ~read.x_is_next
                  /\ Room(db', second.gid).x_is_next = Room(db, second.gid).x_is_next]_vars

\* Both workers have answered a move of X made on the same empty board, at
\* different cells; the board holds one of the two marks and it is O's turn.
C17_Witness ==
    \E w \in Workers, v \in Workers :
        /\ flight[w].pc = "done" /\ flight[w].op = "move"
        /\ flight[v].pc = "done" /\ flight[v].op = "move"
        /\ flight[w].game = flight[v].game
        /\ flight[w].gid = flight[v].gid
        /\ flight[w].idx # flight[v].idx
        /\ flight[w].game[1].board = EmptyBoard
        /\ flight[w].role = "X" /\ flight[v].role = "X"
        /\ Marks(Room(db, flight[w].gid).board) = 1
        /\ Cell(Room(db, flight[w].gid).board, flight[w].idx) = "X"
        /\ Cell(Room(db, flight[w].gid).board, flight[v].idx) = None
        /\ ~Room(db, flight[w].gid).x_is_next
        /\ ~History(flight[w].gid).reset_since

\* The step is an accepted reset-round of room gid.
IsResetRound(gid) ==
    /\ reset_round(db, gid).resp.status = 200
    /\ db' = reset_round(db, gid).db

\* C19: also when moves overlap, no step lowers a score of a room unless
\* it is a reset-scores, and no step takes a decided round back to
\* undecided unless it is a reset-round or a reset-scores.
C19_ScoreAndOutcomeKept ==
    [][\A gid \in RoomIds :
           Exists(db, gid) =>
               LET d == Room(db, gid)
                   e == Room(db', gid)
               IN  /\ (e.score_x < d.score_x \/ e.score_o < d.score_o)
                          => IsResetScores(gid)
                   /\ (Decided(d) /\ ~Decided(e))
                          => (IsResetRound(gid) \/ IsResetScores(gid))]_vars

\* Worker w has answered a join of room gid with a role.
Answered(w, gid) ==
    /\ flight[w].pc = "done"
    /\ flight[w].op = "join"
    /\ flight[w].gid = gid

\* C20: also when joins overlap, two distinct identifiers are never both
\* answered the same role of a room, no step replaces a stored binding by a
\* different identifier, and a room code never has more than one record.
C20_JoinsKeepOneBinding ==
    [][\A gid \in RoomIds :
           /\ \A w \in Workers, v \in Workers :
                  (Answered(w, gid)' /\ Answered(v, gid)'
                      /\ flight'[w].pid # flight'[v].pid)
                  => flight'[w].role # flight'[v].role
           /\ \A i \in 1 .. Len(db) :
                  IsRoom(db[i], gid) =>
                      /\ db[i].x_player # None => db'[i].x_player = db[i].x_player
                      /\ db[i].o_player # None => db'[i].o_player = db[i].o_player
           /\ Len(Matches(db', gid)) <= 1]_vars

====
